---- MODULE Spec2Model ----
(***************************************************************************)
(* A model of teeny-tiny-router: the path resolver (utils.js), the page    *)
(* cache, the hover prefetch scheduler and the navigate state machine of   *)
(* MiniRouter (index.js).                                                  *)
(*                                                                         *)
(* A JavaScript string is a sequence of one-character strings, so that     *)
(* split, replace, endsWith and decodeURIComponent are computed and not    *)
(* assumed.  Titles and bodies of pages are never taken apart by the       *)
(* router and stay TLA+ strings.                                           *)
(***************************************************************************)
EXTENDS Integers, Sequences, FiniteSets, TLC

(***************************************************************************)
(* Bounds of the model.                                                    *)
(***************************************************************************)
MaxNav == 2
MaxPre == 2
MaxTimers == 2

\* the longest path normalizePath is called with, in pieces
MaxPieces == 4

\* the longest URL parsePath is called with, in segments
MaxSegments == 3

(***************************************************************************)
(* String helpers.                                                         *)
(***************************************************************************)
SetMin(S) == CHOOSE x \in S : \A y \in S : x <= y

SetMax(S) == CHOOSE x \in S : \A y \in S : x >= y

\* String.prototype.toLowerCase on one character (the letters /i needs).
Lower(c) ==
  CASE c = "H" -> "h" [] c = "T" -> "t" [] c = "M" -> "m" [] c = "L" -> "l"
    [] c = "I" -> "i" [] c = "N" -> "n" [] c = "D" -> "d" [] c = "E" -> "e"
    [] c = "X" -> "x" [] OTHER -> c

\* s.endsWith(suf)
EndsWith(s, suf) ==
  /\ Len(s) >= Len(suf)
  /\ \A i \in 1..Len(suf) : s[Len(s) - Len(suf) + i] = suf[i]

\* the regular expression /suf$/i tested on s (suf is in lower case)
EndsWithCI(s, suf) ==
  /\ Len(s) >= Len(suf)
  /\ \A i \in 1..Len(suf) : Lower(s[Len(s) - Len(suf) + i]) = suf[i]

\* s.split(/[?#]/)[0]
StripQuery(s) ==
  LET cut == {i \in 1..Len(s) : s[i] \in {"?", "#"}}
  IN  IF cut = {} THEN s ELSE SubSeq(s, 1, SetMin(cut) - 1)

\* s.replace(/\/+$/, "")
StripSlashes(s) ==
  LET keep == {i \in 1..Len(s) : s[i] # "/"}
  IN  IF keep = {} THEN <<>> ELSE SubSeq(s, 1, SetMax(keep))

\* s.split("/").filter(Boolean): the non-empty pieces between slashes
Segments(s) ==
  LET starts == {i \in 1..Len(s) : s[i] # "/" /\ (i = 1 \/ s[i - 1] = "/")}
      end(i) == SetMin({j \in i..Len(s) : j = Len(s) \/ s[j + 1] = "/"})
      nth(k) == CHOOSE i \in starts : Cardinality({j \in starts : j < i}) = k - 1
  IN  [k \in 1..Cardinality(starts) |-> SubSeq(s, nth(k), end(nth(k)))]

\* segs.join("/")
RECURSIVE Join(_)
Join(segs) ==
  IF segs = <<>> THEN <<>>
  ELSE IF Len(segs) = 1 THEN segs[1]
  ELSE segs[1] \o <<"/">> \o Join(Tail(segs))

DotHtml == <<".", "h", "t", "m", "l">>

SlashIndex == <<"/", "i", "n", "d", "e", "x">>

(***************************************************************************)
(* decodeURIComponent.  A %XX escape is one byte; bytes below 0x80 are     *)
(* ASCII characters, bytes from 0x80 must form a well-formed UTF-8         *)
(* sequence.  A malformed escape makes the function throw URIError, which  *)
(* is the value Malformed here.                                            *)
(***************************************************************************)
HexDigits ==
  <<"0", "1", "2", "3", "4", "5", "6", "7", "8", "9", "a", "b", "c", "d", "e", "f">>

\* a hexadecimal digit in lower case
HexLower(c) ==
  CASE c = "A" -> "a" [] c = "B" -> "b" [] c = "C" -> "c" [] c = "D" -> "d"
    [] c = "E" -> "e" [] c = "F" -> "f" [] OTHER -> c

IsHex(c) == \E k \in 1..16 : HexDigits[k] = HexLower(c)

HexVal(c) == (CHOOSE k \in 1..16 : HexDigits[k] = HexLower(c)) - 1

\* the printable ASCII characters, code 32 first (the double quote and the
\* back quote are written as the tokens <dq> and <bq>)
Printable ==
  <<" ", "!", "<dq>", "#", "$", "%", "&", "'", "(", ")", "*", "+", ",", "-", ".", "/",
    "0", "1", "2", "3", "4", "5", "6", "7", "8", "9", ":", ";", "<", "=", ">", "?",
    "@", "A", "B", "C", "D", "E", "F", "G", "H", "I", "J", "K", "L", "M", "N", "O",
    "P", "Q", "R", "S", "T", "U", "V", "W", "X", "Y", "Z", "[", "\\", "]", "^", "_",
    "<bq>", "a", "b", "c", "d", "e", "f", "g", "h", "i", "j", "k", "l", "m", "n", "o",
    "p", "q", "r", "s", "t", "u", "v", "w", "x", "y", "z", "{", "|", "}", "~">>

\* the character of an ASCII code; control characters are one token
Chr(code) == IF code \in 32..126 THEN Printable[code - 31] ELSE "<ctl>"

Malformed == <<"URIError">>

\* the byte of the escape at position i of s, or -1 when it is not an escape
EscapeAt(s, i) ==
  IF i + 2 <= Len(s) /\ s[i] = "%" /\ IsHex(s[i + 1]) /\ IsHex(s[i + 2])
    THEN 16 * HexVal(s[i + 1]) + HexVal(s[i + 2])
    ELSE -1

\* number of continuation bytes a UTF-8 lead byte asks for, -1 for no lead byte
Continuations(b) ==
  CASE b \in 194..223 -> 1
    [] b \in 224..239 -> 2
    [] b \in 240..244 -> 3
    [] OTHER -> -1

\* the escaped character at position i of s, b being its first byte: its
\* width in s, the character, and whether it is malformed
Escape(s, i, b) ==
  IF b < 0 \/ (b >= 128 /\ Continuations(b) < 0) THEN [bad |-> TRUE, width |-> 3, char |-> "%"]
  ELSE IF b < 128 THEN [bad |-> FALSE, width |-> 3, char |-> Chr(b)]
  ELSE [bad |-> \E k \in 1..Continuations(b) : EscapeAt(s, i + 3 * k) \notin 128..191,
        width |-> 3 * (Continuations(b) + 1), char |-> "<uni>"]

\* the character at position i of s
CharAt(s, i) ==
  IF s[i] # "%" THEN [bad |-> FALSE, width |-> 1, char |-> s[i]]
  ELSE Escape(s, i, EscapeAt(s, i))

Prepend(char, rest) == IF rest = Malformed THEN Malformed ELSE <<char>> \o rest

\* the decoding of s from position i on, c being the character at i
RECURSIVE DecodeFrom(_, _)
DecodeChar(s, i, c) ==
  IF c.bad THEN Malformed ELSE Prepend(c.char, DecodeFrom(s, i + c.width))

DecodeFrom(s, i) == IF i > Len(s) THEN << >> ELSE DecodeChar(s, i, CharAt(s, i))

decodeURIComponent(s) == DecodeFrom(s, 1)

(***************************************************************************)
(* utils.js                                                                *)
(***************************************************************************)
\* `if (p.length > 1) p = p.replace(/\/+$/, "")`
dropTrailingSlash(p) == IF Len(p) > 1 THEN StripSlashes(p) ELSE p

\* `if (p !== "/") p = p.replace(/\.html$/i, "")`
dropHtml(p) ==
  IF p # <<"/">> /\ EndsWithCI(p, DotHtml) THEN SubSeq(p, 1, Len(p) - 5) ELSE p

\* normalizePath without the rule for a trailing /index
dropIndexNever(p) == p

\* `p = p.replace(/\/(index)$/i, "")`
dropIndex(p) == IF EndsWithCI(p, SlashIndex) THEN SubSeq(p, 1, Len(p) - 6) ELSE p

\* `if (!p.startsWith("/")) p = "/" + p`
leadingSlash(p) == IF p # << >> /\ p[1] = "/" THEN p ELSE <<"/">> \o p

normalizePath(path) ==
  IF path = << >> THEN <<"/">>
  ELSE leadingSlash(dropTrailingSlash(dropIndex(dropHtml(dropTrailingSlash(
         StripQuery(path))))))

\* The three results of parsePath: null, a parameter map, a thrown URIError.
NoMatch == [kind |-> "null"]

Thrown == [kind |-> "throw"]

Matched(params) == [kind |-> "params", params |-> params]

\* params[key] = value
SetParam(params, key, value) ==
  [k \in DOMAIN params \cup {key} |-> IF k = key THEN value ELSE params[k]]

\* One turn of the loop of parsePath, at index i with params bound so far
\* and v the decoded value the turn would bind: the result of parsePath when
\* the turn ends the loop, or "continue" with the parameters bound after it.
MatchTurn(a, bPresent, b, v, params) ==
  IF a = <<"*">>
    THEN IF v = Malformed THEN Thrown ELSE Matched(SetParam(params, <<"*">>, v))
  ELSE IF a[1] = ":"
    THEN IF ~bPresent THEN NoMatch
         ELSE IF v = Malformed THEN Thrown
         ELSE [kind |-> "continue", params |-> SetParam(params, Tail(a), v)]
  ELSE IF ~bPresent \/ a # b THEN NoMatch
  ELSE [kind |-> "continue", params |-> params]

\* what the turn at index i decodes: the rest of the URL for "*", the
\* segment at i otherwise
TurnText(ptnSeg, urlSeg, i) ==
  IF ptnSeg[i] = <<"*">> THEN Join(SubSeq(urlSeg, i, Len(urlSeg)))
  ELSE IF i <= Len(urlSeg) THEN urlSeg[i] ELSE << >>

MatchStep(ptnSeg, urlSeg, i, params) ==
  MatchTurn(ptnSeg[i], i <= Len(urlSeg), IF i <= Len(urlSeg) THEN urlSeg[i] ELSE << >>,
            decodeURIComponent(TurnText(ptnSeg, urlSeg, i)), params)

\* the rest of the loop of parsePath after a turn that answered step
RECURSIVE MatchFrom(_, _, _, _)
MatchAfter(ptnSeg, urlSeg, i, step) ==
  IF step.kind # "continue" THEN step
  ELSE MatchFrom(ptnSeg, urlSeg, i + 1, step.params)

\* the loop of parsePath from index i on
MatchFrom(ptnSeg, urlSeg, i, params) ==
  IF i > Len(ptnSeg) THEN Matched(params)
  ELSE MatchAfter(ptnSeg, urlSeg, i, MatchStep(ptnSeg, urlSeg, i, params))

\* parsePath once both sides are split into segments
matchSegments(ptnSeg, urlSeg) ==
  IF ~(ptnSeg # << >> /\ ptnSeg[Len(ptnSeg)] = <<"*">>) /\ Len(ptnSeg) # Len(urlSeg)
    THEN NoMatch
  ELSE IF (ptnSeg # << >> /\ ptnSeg[Len(ptnSeg)] = <<"*">>)
          /\ Len(urlSeg) < Len(ptnSeg) - 1
    THEN NoMatch
  ELSE MatchFrom(ptnSeg, urlSeg, 1, << >>)

parsePath(pattern, urlPath) ==
  matchSegments(Segments(normalizePath(pattern)), Segments(normalizePath(urlPath)))

(***************************************************************************)
(* The inputs of the model: URLs, route patterns, handlers, server         *)
(* responses, listeners and links.                                         *)
(***************************************************************************)
UrlEmpty == << >>

UrlRoot == <<"/">>

UrlPost == <<"/", "p", "o", "s", "t", "s", "/", "7">>

UrlPostQuery == <<"/", "p", "o", "s", "t", "s", "/", "7", "?", "x">>

\* "/posts/%": a path whose last segment is not a valid percent-encoding
UrlMalformed == <<"/", "p", "o", "s", "t", "s", "/", "%">>

\* Two base paths, "/about" and "/a/b", and the spellings of each: as a route
\* pattern P and P.html, as a URL P, P/, P.html, P/index and P/index.html,
\* bare, with a query, with a fragment.
BaseAbout == <<"/", "a", "b", "o", "u", "t">>

BaseNested == <<"/", "a", "/", "b">>

BasePaths == {BaseAbout, BaseNested}

PatternSpellings(P) == {P, P \o DotHtml}

UrlSuffixes ==
  {<< >>, <<"/">>, DotHtml, SlashIndex, SlashIndex \o DotHtml}

UrlTails == {<< >>, <<"?", "x">>, <<"#", "h">>}

UrlSpellings(P) == {P \o s \o t : s \in UrlSuffixes, t \in UrlTails}

SpellPatterns == UNION {PatternSpellings(P) : P \in BasePaths}

SpellUrls == UNION {UrlSpellings(P) : P \in BasePaths}

Urls == {UrlEmpty, UrlRoot, UrlPost, UrlPostQuery, UrlMalformed} \cup SpellUrls

PatternId == <<"/", "p", "o", "s", "t", "s", "/", ":", "i", "d">>

PatternAll == <<"/", "p", "o", "s", "t", "s", "/", "*">>

\* A route handler is modelled by what it returns: nothing, a string, an
\* object, or an exception.
ReturnsNothing == [kind |-> "null"]

ReturnsString == [kind |-> "string", body |-> "B"]

ReturnsObject == [kind |-> "object", fields |-> [title |-> "A"]]

Throws == [kind |-> "throw"]

\* An async handler: it returns a promise that is pending when the handler
\* returns and is fulfilled later, with a string.
ReturnsPromise == [kind |-> "string", body |-> "B", promise |-> TRUE]

\* What parseHTML makes of the two documents the server answers with: one
\* without a <title>, one with.
DocUntitled == [title |-> "", body |-> "<p>page</p>"]

DocTitled == [title |-> "T", body |-> "<p>titled page</p>"]

Docs == {DocUntitled, DocTitled}

\* What parseHTML makes of the body of a response with status 404.
DocNotFound == [title |-> "Not Found", body |-> "<h1>404</h1>"]

\* An event listener either returns or throws.
ListenerKinds == {"returns", "throws"}

NoEntry == [none |-> TRUE]

VARIABLES
  htmlExtension,     \* this.htmlExtension
  prefetchOnHover,   \* this.prefetchOnHover
  prefetchDelay,     \* this.prefetchDelay
  enterListener,     \* the mouseenter listener is installed
  leaveListener,     \* the mouseleave listener is installed
  cache,             \* this.cache: url -> {title, body}
  routes,            \* this.routes: the entries of the Map, in insertion order
  events,            \* this.events: event name -> listeners
  prefetchTimeouts,  \* this.prefetchTimeouts: link -> timeout id
  timers,            \* the timers setTimeout has created
  navs,              \* the calls of navigate
  pres,              \* the calls of prefetch
  alls,              \* the call of prefetchAll
  history,           \* the session history, a list of {title, url}
  historyIndex,      \* the current entry of the session history
  docTitle,          \* document.title
  container,         \* innerHTML of #app
  shown,             \* the URL whose content the last render step rendered
  lastWrite,         \* per url, the operation that wrote the cache entry last
  prefetched,        \* per url, the entry a prefetch stored since the last clear
  navFailed,         \* per url, a navigate stored the fallback since the last clear
  argPattern,        \* the pattern a path function is called with
  argPath,           \* the path or URL a path function is called with
  answer             \* what the call of the path function returned

vars ==
  <<htmlExtension, prefetchOnHover, prefetchDelay, enterListener, leaveListener,
    cache, routes, events, prefetchTimeouts, timers, navs, pres, alls, history,
    historyIndex, docTitle, container, shown, lastWrite, prefetched,
    navFailed, argPattern, argPath, answer>>

hoverVars == <<prefetchOnHover, prefetchTimeouts, timers>>

ghostVars == <<lastWrite, prefetched, navFailed>>

\* what no operation of a router changes: the options fixed at construction
\* and the record of a call of one of the path functions
configVars ==
  <<htmlExtension, prefetchDelay, enterListener, leaveListener, argPattern, argPath,
    answer>>

pageVars == <<history, historyIndex, docTitle, container, shown>>

IdleNav ==
  [pc |-> "idle", rawUrl |-> << >>, replace |-> FALSE, matchUrl |-> << >>,
   fetched |-> FALSE, data |-> NoEntry, finalData |-> NoEntry, idx |-> 0,
   ctx |-> NoEntry, params |-> << >>, result |-> ReturnsNothing,
   invoked |-> << >>, results |-> << >>, emitted |-> << >>, render |-> "none",
   hist |-> << >>, seen |-> NoEntry, target |-> << >>, response |-> NoEntry]

IdlePre ==
  [pc |-> "idle", url |-> << >>, origin |-> "none", timer |-> 0, fetched |-> FALSE,
   emitted |-> << >>, failed |-> FALSE]

IdleTimer ==
  [state |-> "unused", link |-> "none", href |-> << >>, left |-> FALSE,
   disabled |-> FALSE]

IdleAll == [pc |-> "idle", members |-> {}]

\* constructor({htmlExtension, prefetchOnHover, prefetchDelay}), with
\* _initPrefetchHandler deciding once which hover listeners exist
Construct(he, poh, pd) ==
  /\ htmlExtension = he
  /\ prefetchOnHover = poh
  /\ prefetchDelay = pd
  /\ enterListener = poh
  /\ leaveListener = (poh /\ pd > 0)
  /\ cache = << >>
  /\ routes = << >>
  /\ events = << >>
  /\ prefetchTimeouts = << >>
  /\ timers = [t \in 1..MaxTimers |-> IdleTimer]
  /\ navs = [n \in 1..MaxNav |-> IdleNav]
  /\ pres = [p \in 1..MaxPre |-> IdlePre]
  /\ alls = IdleAll
  /\ history = <<[title |-> "", url |-> UrlRoot]>>
  /\ historyIndex = 1
  /\ docTitle = "Home"
  /\ container = "<p>home</p>"
  /\ shown = UrlRoot
  /\ lastWrite = [u \in Urls |-> "none"]
  /\ prefetched = [u \in Urls |-> NoEntry]
  /\ navFailed = [u \in Urls |-> FALSE]

(***************************************************************************)
(* Map and object helpers.                                                 *)
(***************************************************************************)
\* cache.has(url)
Has(url) == url \in DOMAIN cache

\* the Map after map.set(key, value)
MapSet(map, key, value) ==
  [k \in DOMAIN map \cup {key} |-> IF k = key THEN value ELSE map[k]]

\* the Map after map.delete(key)
MapDelete(map, key) == [k \in DOMAIN map \ {key} |-> map[k]]

\* {...a, ...b}
Spread(a, b) ==
  [k \in DOMAIN a \cup DOMAIN b |-> IF k \in DOMAIN b THEN b[k] ELSE a[k]]

\* the first slot of a call table that is still idle, 0 when there is none
FreeSlot(table) ==
  LET free == {i \in DOMAIN table : table[i].pc = "idle"}
  IN  IF free = {} THEN 0 ELSE SetMin(free)

(***************************************************************************)
(* on, emit, route                                                         *)
(***************************************************************************)
\* on(event, callback)
On(event, callback) ==
  /\ events' = MapSet(events, event,
                      IF event \in DOMAIN events
                        THEN Append(events[event], callback) ELSE <<callback>>)
  /\ UNCHANGED <<configVars, hoverVars, pageVars, cache, routes, navs, pres,
                 alls, ghostVars>>

\* emit(event, payload) throws when one of the listeners throws
EmitThrows(event) ==
  /\ event \in DOMAIN events
  /\ \E i \in 1..Len(events[event]) : events[event][i] = "throws"

\* the index of pattern among the entries of this.routes, 0 when absent
RouteIndex(pattern) ==
  LET at == {i \in 1..Len(routes) : routes[i].pattern = pattern}
  IN  IF at = {} THEN 0 ELSE SetMin(at)

\* route(pattern, callback): Map.set keeps the place of a key it already has
Route(pattern, callback) ==
  /\ routes' = IF RouteIndex(pattern) = 0
                 THEN Append(routes, [pattern |-> pattern, callback |-> callback])
                 ELSE [routes EXCEPT ![RouteIndex(pattern)].callback = callback]
  /\ UNCHANGED <<configVars, hoverVars, pageVars, cache, events, navs, pres,
                 alls, ghostVars>>

(***************************************************************************)
(* clearCache, getCacheInfo                                                *)
(***************************************************************************)
\* the argument of clearCache() when none is given
Undefined == <<"undefined">>

\* clearCache(url): `if (url)` is false for undefined and for ""
ClearCache(url) ==
  /\ cache' = IF url # Undefined /\ url # << >> THEN MapDelete(cache, url) ELSE << >>
  /\ lastWrite' = [u \in Urls |-> IF u \in DOMAIN cache' THEN lastWrite[u] ELSE "none"]
  /\ prefetched' = [u \in Urls |-> IF u \in DOMAIN cache' THEN prefetched[u] ELSE NoEntry]
  /\ navFailed' = [u \in Urls |-> u \in DOMAIN cache' /\ navFailed[u]]
  /\ UNCHANGED <<configVars, hoverVars, pageVars, routes, events, navs, pres,
                 alls>>

\* getCacheInfo(): it reads the cache and changes nothing
getCacheInfo == [size |-> Cardinality(DOMAIN cache), urls |-> DOMAIN cache]

(***************************************************************************)
(* fetchPage                                                               *)
(***************************************************************************)
\* what fetch() settles with: a document, or a transport error
NetworkError == [error |-> "TypeError: Failed to fetch"]

Responses == Docs \cup {NetworkError}

\* res.ok of the response whose text parses to resp.  fetchPage reads
\* res.text() and neither res.ok nor res.status.
ok(resp) == resp \in Docs

fallback ==
  [title |-> "Error",
   body |-> "<h1>Network Error</h1><pre>TypeError: Failed to fetch</pre>"]

\* fetchPage without its first line: the cache is never consulted
fetchPageHitNever(url) == FALSE

\* fetchPage, first line: a cached url is answered without a fetch
fetchPageHit(url) == Has(url)

\* fetchPage with a catch block that does not cache the fallback
fetchPageForgetsFallback(url, isPrefetch, resp) ==
  IF resp # NetworkError
    THEN IF isPrefetch /\ EmitThrows("prefetch")
           THEN [cache |-> MapSet(cache, url, resp), threw |-> TRUE,
                 data |-> NoEntry, emitted |-> <<"prefetch", "prefetch:error">>]
           ELSE [cache |-> MapSet(cache, url, resp), threw |-> FALSE, data |-> resp,
                 emitted |-> IF isPrefetch THEN <<"prefetch">> ELSE << >>]
    ELSE IF isPrefetch
           THEN [cache |-> cache, threw |-> TRUE, data |-> NoEntry,
                 emitted |-> <<"prefetch:error">>]
           ELSE [cache |-> cache, threw |-> FALSE, data |-> fallback, emitted |-> << >>]

\* fetchPage with a catch block that treats a prefetch like a navigation
fetchPageCachesPrefetchError(url, isPrefetch, resp) ==
  IF resp # NetworkError
    THEN IF isPrefetch /\ EmitThrows("prefetch")
           THEN [cache |-> MapSet(cache, url, fallback), threw |-> FALSE,
                 data |-> fallback, emitted |-> <<"prefetch">>]
           ELSE [cache |-> MapSet(cache, url, resp), threw |-> FALSE, data |-> resp,
                 emitted |-> IF isPrefetch THEN <<"prefetch">> ELSE << >>]
    ELSE [cache |-> MapSet(cache, url, fallback), threw |-> FALSE,
          data |-> fallback, emitted |-> << >>]

\* fetchPage looking at the cache again after the fetch: a url that was
\* cached in the meantime keeps its entry and the call returns that entry
fetchPageFirstWriteWins(url, isPrefetch, resp) ==
  IF Has(url)
    THEN [cache |-> cache, threw |-> FALSE, data |-> cache[url],
          emitted |-> IF isPrefetch THEN <<"prefetch">> ELSE << >>]
  ELSE IF resp # NetworkError
    THEN [cache |-> MapSet(cache, url, resp), threw |-> FALSE, data |-> resp,
          emitted |-> IF isPrefetch THEN <<"prefetch">> ELSE << >>]
  ELSE IF isPrefetch
    THEN [cache |-> cache, threw |-> TRUE, data |-> NoEntry,
          emitted |-> <<"prefetch:error">>]
  ELSE [cache |-> MapSet(cache, url, fallback), threw |-> FALSE,
        data |-> fallback, emitted |-> << >>]

\* fetchPage from `await fetch` on, with the response resp: the cache it
\* leaves, the events it emits, and whether it returns data or throws
fetchPage(url, isPrefetch, resp) ==
  IF resp # NetworkError
    THEN IF isPrefetch /\ EmitThrows("prefetch")
           THEN [cache |-> MapSet(cache, url, resp), threw |-> TRUE,
                 data |-> NoEntry, emitted |-> <<"prefetch", "prefetch:error">>]
           ELSE [cache |-> MapSet(cache, url, resp), threw |-> FALSE, data |-> resp,
                 emitted |-> IF isPrefetch THEN <<"prefetch">> ELSE << >>]
    ELSE IF isPrefetch
           THEN [cache |-> cache, threw |-> TRUE, data |-> NoEntry,
                 emitted |-> <<"prefetch:error">>]
           ELSE [cache |-> MapSet(cache, url, fallback), threw |-> FALSE,
                 data |-> fallback, emitted |-> << >>]

(***************************************************************************)
(* prefetch, prefetchAll                                                   *)
(***************************************************************************)
\* prefetch(url) up to its first await: nothing to do for a cached url,
\* a fetch tagged as a prefetch otherwise
prefetch(url, origin, timer) ==
  IF Has(url) \/ fetchPageHit(url)
    THEN [IdlePre EXCEPT !.pc = "resolved", !.url = url, !.origin = origin,
                         !.timer = timer]
    ELSE [IdlePre EXCEPT !.pc = "fetching", !.url = url, !.origin = origin,
                         !.timer = timer, !.fetched = TRUE]

\* prefetch without its try/catch
prefetchSettlesUncaught(threw) == IF threw THEN "rejected" ELSE "resolved"

\* the try/catch of prefetch: how its promise settles when fetchPage threw
prefetchSettles(threw) == "resolved"

\* router.prefetch(url), called by the application
Prefetch(url) ==
  /\ FreeSlot(pres) # 0
  /\ pres' = [pres EXCEPT ![FreeSlot(pres)] = prefetch(url, "api", 0)]
  /\ UNCHANGED <<configVars, hoverVars, pageVars, cache, routes, events, navs,
                 alls, ghostVars>>

\* the fetch of a prefetch settles and fetchPage and prefetch run to their end
PrefetchSettle(p, resp) ==
  /\ pres[p].pc = "fetching"
  /\ LET r == fetchPage(pres[p].url, TRUE, resp)
         u == pres[p].url
     IN  /\ cache' = r.cache
         /\ pres' = [pres EXCEPT ![p].pc = prefetchSettles(r.threw),
                                 ![p].emitted = r.emitted,
                                 ![p].failed = (resp = NetworkError)]
         /\ lastWrite' = IF resp # NetworkError
                           THEN [lastWrite EXCEPT ![u] = "prefetch"] ELSE lastWrite
         /\ prefetched' = IF resp # NetworkError
                            THEN [prefetched EXCEPT ![u] = resp] ELSE prefetched
         /\ navFailed' = navFailed
  /\ UNCHANGED <<configVars, hoverVars, pageVars, routes, events, navs, alls>>

\* Promise.allSettled: fulfilled once every promise has settled
allSettled(states) ==
  IF \A p \in DOMAIN states : states[p] \in {"resolved", "rejected"}
    THEN "resolved" ELSE "waiting"

\* urls.map((url) => this.prefetch(url)): the calls are made one after the
\* other into the free slots, before anything else runs
PrefetchAll(urls) ==
  /\ alls.pc = "idle"
  /\ LET free == {p \in 1..MaxPre : pres[p].pc = "idle"}
         slot(i) == SetMin({p \in free : Cardinality({q \in free : q < p}) = i - 1})
     IN  /\ Cardinality(free) >= Len(urls)
         /\ pres' = [p \in 1..MaxPre |->
                       IF \E i \in 1..Len(urls) : slot(i) = p
                         THEN prefetch(urls[CHOOSE i \in 1..Len(urls) : slot(i) = p], "all", 0)
                         ELSE pres[p]]
         /\ alls' = [pc |-> "waiting", members |-> {slot(i) : i \in 1..Len(urls)}]
  /\ UNCHANGED <<configVars, hoverVars, pageVars, cache, routes, events, navs,
                 ghostVars>>

\* await Promise.allSettled(promises)
PrefetchAllSettle ==
  /\ alls.pc = "waiting"
  /\ allSettled([p \in alls.members |-> pres[p].pc]) = "resolved"
  /\ alls' = [alls EXCEPT !.pc = "resolved"]
  /\ UNCHANGED <<configVars, hoverVars, pageVars, cache, routes, events, navs,
                 pres, ghostVars>>

(***************************************************************************)
(* navigate                                                                *)
(***************************************************************************)
\* _normalizeUrl(url)
_normalizeUrl(url) ==
  LET clean == StripQuery(url)
  IN  IF htmlExtension /\ ~EndsWith(clean, DotHtml) /\ clean # <<"/">>
        THEN clean \o DotHtml ELSE clean

\* the URL the browser makes of the third argument of pushState/replaceState:
\* an absolute path stands for itself, the empty string for the current URL
ResolveUrl(url) == IF url = << >> THEN history[historyIndex].url ELSE url

\* history.pushState({}, title, url) and history.replaceState({}, title, url)
historyUpdate(replace, title, url) ==
  IF replace
    THEN [entries |-> [history EXCEPT ![historyIndex] =
                         [title |-> title, url |-> ResolveUrl(url)]],
          index |-> historyIndex]
    ELSE [entries |-> Append(SubSeq(history, 1, historyIndex),
                             [title |-> title, url |-> ResolveUrl(url)]),
          index |-> historyIndex + 1]

\* the override with a string branch that replaces the whole content
applyResultStringReplacesAll(finalData, result) ==
  CASE result.kind = "string" -> [title |-> "", body |-> result.body]
    [] result.kind = "object" -> Spread(finalData, result.fields)
    [] OTHER -> finalData

\* `result != null` and the two typeof branches: the content after the
\* override a handler returned
applyResult(finalData, result) ==
  CASE result.kind = "string" -> [finalData EXCEPT !.body = result.body]
    [] result.kind = "object" -> Spread(finalData, result.fields)
    [] OTHER -> finalData

\* the first entry of this.routes from index i on that parsePath does not
\* answer with null, 0 when there is none
FirstOf(hit) == IF hit = {} THEN 0 ELSE SetMin(hit)

NextRoute(i, matchUrl) ==
  FirstOf({j \in i..Len(routes) : parsePath(routes[j].pattern, matchUrl) # NoMatch})

\* Array.isArray(this.events["navigate"]) && this.events["navigate"].length > 0
hasCustomNavigate == "navigate" \in DOMAIN events /\ Len(events["navigate"]) > 0

\* the title of the history entry taken from the document alone
historyTitleOfDocument(finalTitle, documentTitle) == documentTitle

\* `finalData.title || document.title || ""`
historyTitle(finalTitle, documentTitle) ==
  IF finalTitle # "" THEN finalTitle ELSE documentTitle

\* document.title after the render step
renderTitle(custom, payload) ==
  IF ~custom /\ payload.title # "" THEN payload.title ELSE docTitle

\* the render step writing the container although a listener renders
renderBodyAlways(custom, payload) == payload.body

\* innerHTML of #app after the render step
renderBody(custom, payload) == IF custom THEN container ELSE payload.body

\* the page as it is
Page ==
  [docTitle |-> docTitle, container |-> container, history |-> history,
   historyIndex |-> historyIndex, shown |-> shown]

\* the last lines of navigate: the history update with the title of the call
Update(nav, custom, payload, title, h) ==
  [nav |-> [nav EXCEPT
              !.pc = "done",
              !.render = IF custom THEN "custom" ELSE "default",
              !.emitted = IF custom THEN Append(nav.emitted, <<"navigate", payload>>)
                                    ELSE nav.emitted,
              !.hist = Append(nav.hist,
                              [op |-> IF nav.replace THEN "replaceState" ELSE "pushState",
                               title |-> title, url |-> nav.rawUrl])],
   page |-> [docTitle |-> renderTitle(custom, payload),
             container |-> renderBody(custom, payload),
             history |-> h.entries, historyIndex |-> h.index,
             shown |-> nav.target]]

\* the render step and what follows it, for the payload of the call
Render(nav, custom, payload, title) ==
  IF custom /\ EmitThrows("navigate")
    THEN [nav |-> [nav EXCEPT !.pc = "rejected", !.render = "custom",
                              !.emitted = Append(nav.emitted, <<"navigate", payload>>)],
          page |-> Page]
    ELSE Update(nav, custom, payload, title, historyUpdate(nav.replace, title, nav.rawUrl))

\* navigate after the loop over the routes: render, then update the history.
\* The result is the call and the page it leaves.
FinishWith(nav, custom, payload) ==
  Render(nav, custom, payload,
         historyTitle(nav.finalData.title, renderTitle(custom, payload)))

Finish(nav) == FinishWith(nav, hasCustomNavigate, Spread([url |-> nav.rawUrl], nav.finalData))

\* the turn of the loop with the exception of the handler caught: the loop
\* goes on as if the handler had returned nothing
InvokeCatchesHandler(nav, j, m) ==
  IF m = Thrown
    THEN [nav |-> [nav EXCEPT !.pc = "rejected"], page |-> Page]
  ELSE [nav |-> [nav EXCEPT
                   !.pc = "handler", !.idx = j,
                   !.ctx = Spread([url |-> nav.rawUrl], nav.finalData),
                   !.params = m.params,
                   !.result = IF routes[j].callback = Throws
                                THEN ReturnsNothing ELSE routes[j].callback,
                   !.invoked = Append(nav.invoked, routes[j].pattern),
                   !.results = Append(nav.results, routes[j].callback)],
        page |-> Page]

\* the turn of the loop for entry j of this.routes, m being the parameters
\* parsePath has found: the handler is called
Invoke(nav, j, m) ==
  IF m = Thrown
    THEN [nav |-> [nav EXCEPT !.pc = "rejected"], page |-> Page]
  ELSE IF routes[j].callback = Throws
    THEN [nav |-> [nav EXCEPT !.pc = "rejected", !.idx = j,
                              !.invoked = Append(nav.invoked, routes[j].pattern),
                              !.results = Append(nav.results, routes[j].callback)],
          page |-> Page]
  ELSE [nav |-> [nav EXCEPT
                   !.pc = "handler", !.idx = j,
                   !.ctx = Spread([url |-> nav.rawUrl], nav.finalData),
                   !.params = m.params,
                   !.result = routes[j].callback,
                   !.invoked = Append(nav.invoked, routes[j].pattern),
                   !.results = Append(nav.results, routes[j].callback)],
        page |-> Page]

\* the turn of the loop with the handler called and not awaited: the next
\* matching handler is started while the first is still pending
StartNext(r, k) ==
  IF k = 0 \/ r.nav.pc # "handler" THEN r
  ELSE [r EXCEPT !.nav.invoked = Append(@, routes[k].pattern),
                 !.nav.results = Append(@, routes[k].callback)]

LoopAtWithoutAwait(nav, j) ==
  IF j = 0 THEN Finish(nav)
  ELSE StartNext(Invoke(nav, j, parsePath(routes[j].pattern, nav.matchUrl)),
                 NextRoute(j + 1, nav.matchUrl))

\* the loop continues with entry j, the next one that matches (0: none)
LoopAt(nav, j) ==
  IF j = 0 THEN Finish(nav)
  ELSE Invoke(nav, j, parsePath(routes[j].pattern, nav.matchUrl))

\* the loop over this.routes.entries() from index i on, up to the next await
\* or to the end of navigate
Loop(nav, i) == LoopAt(nav, NextRoute(i, nav.matchUrl))

\* the page variables after a piece of navigate
SetPage(page) ==
  /\ docTitle' = page.docTitle
  /\ container' = page.container
  /\ history' = page.history
  /\ historyIndex' = page.historyIndex
  /\ shown' = page.shown

\* a piece of navigate has run for call n and left r
Apply(n, r) ==
  /\ navs' = [navs EXCEPT ![n] = r.nav]
  /\ SetPage(r.page)

\* the lines after the await with an event that carries the content after
\* the override of the handler
afterHandlerEmitsOverridden(nav) ==
  [nav EXCEPT
     !.finalData = applyResult(nav.finalData, nav.result),
     !.emitted = Append(nav.emitted,
                        <<"route:", routes[nav.idx].pattern,
                          Spread(Spread([url |-> nav.rawUrl],
                                        applyResult(nav.finalData, nav.result)),
                                 [params |-> nav.params])>>)]

\* the lines after `await Promise.resolve(callback(params))`: the override,
\* then the event of the pattern
afterHandler(nav) ==
  [nav EXCEPT
     !.finalData = applyResult(nav.finalData, nav.result),
     !.emitted = Append(nav.emitted,
                        <<"route:", routes[nav.idx].pattern,
                          Spread(nav.ctx, [params |-> nav.params])>>)]

\* navigate(rawUrl, {replace}) up to `await this.fetchPage(rawUrl)`
navigate(rawUrl, replace) ==
  [IdleNav EXCEPT
     !.pc = IF fetchPageHit(rawUrl) THEN "resume" ELSE "fetching",
     !.rawUrl = rawUrl, !.replace = replace, !.matchUrl = _normalizeUrl(rawUrl),
     !.fetched = ~fetchPageHit(rawUrl),
     !.data = IF Has(rawUrl) THEN cache[rawUrl] ELSE NoEntry,
     !.target = ResolveUrl(rawUrl),
     !.seen = [prefetched |-> prefetched[rawUrl], navFailed |-> navFailed[rawUrl],
               lastWrite |-> lastWrite[rawUrl],
               prefetchFailed |-> \E p \in 1..MaxPre :
                                    pres[p].failed /\ pres[p].url = rawUrl]]

\* router.navigate(rawUrl, {replace}), called by the application or by the
\* click listener
Navigate(rawUrl, replace) ==
  /\ FreeSlot(navs) # 0
  /\ navs' = [navs EXCEPT ![FreeSlot(navs)] = navigate(rawUrl, replace)]
  /\ UNCHANGED <<configVars, hoverVars, pageVars, cache, routes, events, pres,
                 alls, ghostVars>>

\* the popstate listener: the user has moved to entry k of the session history
PopState(k) ==
  /\ FreeSlot(navs) # 0
  /\ k \in 1..Len(history)
  /\ k # historyIndex
  /\ historyIndex' = k
  /\ navs' = [navs EXCEPT ![FreeSlot(navs)] = navigate(history[k].url, TRUE)]
  /\ UNCHANGED <<configVars, hoverVars, history, docTitle, container, shown, cache,
                 routes, events, pres, alls, ghostVars>>

\* the fetch of a navigate settles and fetchPage runs to its end
NavFetchSettle(n, resp) ==
  /\ navs[n].pc = "fetching"
  /\ LET u == navs[n].rawUrl
         r == fetchPage(u, FALSE, resp)
     IN  /\ cache' = r.cache
         /\ navs' = [navs EXCEPT ![n].pc = "resume", ![n].data = r.data,
                                 ![n].response = resp]
         /\ lastWrite' = [lastWrite EXCEPT ![u] = IF resp = NetworkError
                                                    THEN "fallback" ELSE "navigate"]
         /\ navFailed' = IF resp = NetworkError
                           THEN [navFailed EXCEPT ![u] = TRUE] ELSE navFailed
         /\ prefetched' = prefetched
  /\ UNCHANGED <<configVars, hoverVars, pageVars, routes, events, pres, alls>>

\* navigate resumes after `await this.fetchPage(rawUrl)`
NavResume(n) ==
  /\ navs[n].pc = "resume"
  /\ Apply(n, Loop([navs[n] EXCEPT !.finalData = navs[n].data], 1))
  /\ UNCHANGED <<configVars, hoverVars, cache, routes, events, pres, alls,
                 ghostVars>>

\* navigate without the copy of `let finalData = { ...data }`: finalData is
\* the object the cache holds until an object override replaces it, and
\* `finalData.body = result` writes the body of the cached entry
cacheAfterOverrideInPlace(nav) ==
  IF nav.result.kind = "string" /\ Has(nav.rawUrl) /\ nav.finalData = nav.data
    THEN MapSet(cache, nav.rawUrl, [cache[nav.rawUrl] EXCEPT !.body = nav.result.body])
    ELSE cache

\* the cache after the override of a handler: `let finalData = { ...data }`
\* has made a copy, and the override is written to the copy
cacheAfterOverride(nav) == cache

\* navigate resumes after `await Promise.resolve(callback(params))`
HandlerSettle(n) ==
  /\ navs[n].pc = "handler"
  /\ Apply(n, Loop(afterHandler(navs[n]), navs[n].idx + 1))
  /\ cache' = cacheAfterOverride(navs[n])
  /\ UNCHANGED <<configVars, hoverVars, routes, events, pres, alls, ghostVars>>

(***************************************************************************)
(* The hover prefetch scheduler: _initPrefetchHandler, setPrefetchOnHover  *)
(***************************************************************************)
\* the values of the option prefetchDelay: the default, and a positive delay
Delays == {0, 100}

\* The elements `e.target.closest("a[href], [data-link]")` can find.
LinkPost ==
  [id |-> "post", tagName |-> "A", href |-> UrlPost, target |-> "", download |-> FALSE,
   relExternal |-> FALSE, sameOrigin |-> TRUE, noPrefetch |-> FALSE]

LinkRoot ==
  [id |-> "root", tagName |-> "DIV", href |-> UrlRoot, target |-> "", download |-> FALSE,
   relExternal |-> FALSE, sameOrigin |-> TRUE, noPrefetch |-> FALSE]

LinkHeavy ==
  [id |-> "heavy", tagName |-> "A", href |-> UrlPostQuery, target |-> "", download |-> FALSE,
   relExternal |-> FALSE, sameOrigin |-> TRUE, noPrefetch |-> TRUE]

LinkBlank ==
  [id |-> "blank", tagName |-> "A", href |-> UrlPost, target |-> "_blank", download |-> FALSE,
   relExternal |-> FALSE, sameOrigin |-> TRUE, noPrefetch |-> FALSE]

Links == {LinkPost, LinkRoot, LinkHeavy, LinkBlank}

\* the checks of the mouseenter listener that a link has to pass
Eligible(link) ==
  /\ link.href # << >>
  /\ link.tagName = "A" =>
       /\ link.target # "_blank"
       /\ ~link.download
       /\ ~link.relExternal
       /\ link.sameOrigin
  /\ ~link.noPrefetch

\* the mouseenter listener passes the eligibility checks whatever
\* this.prefetchOnHover is at the time of the event
enterGuard(link) == Eligible(link)

\* the timers that are neither fired nor cleared
Pending == {t \in 1..MaxTimers : timers[t].state = "pending"}

\* the id setTimeout returns next, 0 when the model has no timer left
FreeTimer ==
  LET free == {t \in 1..MaxTimers : timers[t].state = "unused"}
  IN  IF free = {} THEN 0 ELSE SetMin(free)

\* clearTimeout(id) for every id of the set ids
clearTimeouts(ids) ==
  [t \in 1..MaxTimers |->
     IF t \in ids /\ timers[t].state = "pending"
       THEN [timers[t] EXCEPT !.state = "cleared"] ELSE timers[t]]

\* the mouseenter listener, for an event whose target lies in link
MouseEnter(link) ==
  /\ enterListener
  /\ enterGuard(link)
  /\ IF prefetchDelay = 0
       THEN /\ FreeSlot(pres) # 0
            /\ pres' = [pres EXCEPT ![FreeSlot(pres)] = prefetch(link.href, "hover", 0)]
            /\ UNCHANGED <<prefetchTimeouts, timers>>
       ELSE /\ FreeTimer # 0
            /\ timers' = [timers EXCEPT ![FreeTimer] =
                            [state |-> "pending", link |-> link.id,
                             href |-> link.href, left |-> FALSE,
                             disabled |-> FALSE]]
            /\ prefetchTimeouts' = MapSet(prefetchTimeouts, link.id, FreeTimer)
            /\ UNCHANGED pres
  /\ UNCHANGED <<configVars, prefetchOnHover, pageVars, cache, routes, events,
                 navs, alls, ghostVars>>

\* ts, with a note on the timers of link that were pending when the
\* mouseleave listener ran
MarkLeft(ts, link) ==
  [t \in 1..MaxTimers |->
     IF timers[t].link = link /\ t \in Pending
       THEN [ts[t] EXCEPT !.left = TRUE] ELSE ts[t]]

\* ts, with a note on the timers that were pending when prefetch on hover
\* was disabled
MarkDisabled(ts) ==
  [t \in 1..MaxTimers |->
     IF t \in Pending THEN [ts[t] EXCEPT !.disabled = TRUE] ELSE ts[t]]

\* the mouseleave listener, for an event whose target lies in link
MouseLeave(link) ==
  /\ leaveListener
  /\ IF link.id \in DOMAIN prefetchTimeouts
       THEN /\ timers' = MarkLeft(clearTimeouts({prefetchTimeouts[link.id]}), link.id)
            /\ prefetchTimeouts' = MapDelete(prefetchTimeouts, link.id)
       ELSE /\ timers' = MarkLeft(timers, link.id)
            /\ UNCHANGED prefetchTimeouts
  /\ UNCHANGED <<configVars, prefetchOnHover, pageVars, cache, routes, events,
                 navs, pres, alls, ghostVars>>

\* the callback of setTimeout: this.prefetch(href)
TimerFire(t) ==
  /\ t \in Pending
  /\ FreeSlot(pres) # 0
  /\ timers' = [timers EXCEPT ![t].state = "fired"]
  /\ pres' = [pres EXCEPT ![FreeSlot(pres)] = prefetch(timers[t].href, "timer", t)]
  /\ UNCHANGED <<configVars, prefetchOnHover, prefetchTimeouts, pageVars, cache,
                 routes, events, navs, alls, ghostVars>>

\* setPrefetchOnHover(enabled)
SetPrefetchOnHover(enabled) ==
  /\ prefetchOnHover' = enabled
  /\ IF ~enabled
       THEN /\ timers' = MarkDisabled(clearTimeouts({prefetchTimeouts[l] :
                                                      l \in DOMAIN prefetchTimeouts}))
            /\ prefetchTimeouts' = << >>
       ELSE UNCHANGED <<prefetchTimeouts, timers>>
  /\ UNCHANGED <<configVars, pageVars, cache, routes, events, navs, pres, alls,
                 ghostVars>>

(***************************************************************************)
(* Specifications.                                                         *)
(***************************************************************************)
\* new MiniRouter(): every option has its default
\* no path function has been called
NoCall == argPattern = << >> /\ argPath = << >> /\ answer = NoEntry

InitDefault == Construct(TRUE, TRUE, 0) /\ NoCall

\* new MiniRouter({prefetchOnHover, prefetchDelay})
InitHover == \E poh \in BOOLEAN, pd \in Delays : Construct(TRUE, poh, pd) /\ NoCall

\* The navigation orchestrator: routes, listeners of "navigate", navigate
\* calls that overlap, the popstate listener.
NavUrls == {UrlPostQuery}

NavResponses == {DocUntitled, NetworkError}

\* the calls of route: an object or an exception for /posts/:id, a string
\* or nothing for /posts/*
RouteCalls ==
  {<<PatternId, ReturnsObject>>, <<PatternId, Throws>>,
   <<PatternAll, ReturnsString>>, <<PatternAll, ReturnsNothing>>}

Next ==
  \/ \E rc \in RouteCalls : Route(rc[1], rc[2])
  \/ \E k \in ListenerKinds : "navigate" \notin DOMAIN events /\ On("navigate", k)
  \/ \E u \in NavUrls, r \in BOOLEAN : Navigate(u, r)
  \/ \E k \in 1..(MaxNav + 1) : PopState(k)
  \/ \E n \in 1..MaxNav, resp \in NavResponses : NavFetchSettle(n, resp)
  \/ \E n \in 1..MaxNav : NavResume(n)
  \/ \E n \in 1..MaxNav : HandlerSettle(n)

Spec == InitDefault /\ [][Next]_vars

\* The page cache under its two writers: navigate and prefetch calls that
\* overlap, and clearCache.
CacheUrls == {UrlEmpty, UrlPost}

NextCache ==
  \/ \E u \in CacheUrls : Navigate(u, FALSE)
  \/ \E n \in 1..MaxNav, resp \in Responses : NavFetchSettle(n, resp)
  \/ \E n \in 1..MaxNav : NavResume(n)
  \/ \E u \in CacheUrls : Prefetch(u)
  \/ \E p \in 1..MaxPre, resp \in Responses : PrefetchSettle(p, resp)
  \/ \E u \in CacheUrls \cup {Undefined} : ClearCache(u)

SpecCache == InitDefault /\ [][NextCache]_vars

\* prefetch and prefetchAll with listeners of the two prefetch events.
UrlLists == {<<u>> : u \in CacheUrls} \cup {<<u, v>> : u \in CacheUrls, v \in CacheUrls}

NextPrefetch ==
  \/ \E e \in {"prefetch", "prefetch:error"}, k \in ListenerKinds :
       e \notin DOMAIN events /\ On(e, k)
  \/ \E u \in CacheUrls : Prefetch(u)
  \/ \E us \in UrlLists : PrefetchAll(us)
  \/ \E p \in 1..MaxPre, resp \in Responses : PrefetchSettle(p, resp)
  \/ PrefetchAllSettle

SpecPrefetch == InitDefault /\ [][NextPrefetch]_vars

\* The hover scheduler: hover events on the links of the page, timers,
\* setPrefetchOnHover, and the prefetches they start.
NextHover ==
  \/ \E l \in Links : MouseEnter(l)
  \/ \E l \in Links : MouseLeave(l)
  \/ \E t \in 1..MaxTimers : TimerFire(t)
  \/ \E b \in BOOLEAN : SetPrefetchOnHover(b)
  \/ \E p \in 1..MaxPre, resp \in Responses : PrefetchSettle(p, resp)

SpecHover == InitHover /\ [][NextHover]_vars

\* Navigations that fail: a response with status 404, a transport error, a
\* URL that is not valid percent-encoding, a handler that throws.  The
\* fetch of a call settles, and the event loop leaves no settled promise
\* unserved: NavResume(n) and HandlerSettle(n) are enabled exactly while call
\* n waits at their await, so their weak fairness says that the call does not
\* wait there for ever.
LiveUrls == {UrlPost, UrlMalformed}

LiveResponses == {DocTitled, DocNotFound, NetworkError}

LiveRouteCalls == {<<PatternId, ReturnsNothing>>, <<PatternId, Throws>>}

NextLive ==
  \/ \E rc \in LiveRouteCalls : Route(rc[1], rc[2])
  \/ \E u \in LiveUrls : Navigate(u, FALSE)
  \/ \E n \in 1..MaxNav, resp \in LiveResponses : NavFetchSettle(n, resp)
  \/ \E n \in 1..MaxNav : NavResume(n)
  \/ \E n \in 1..MaxNav : HandlerSettle(n)

SpecLive ==
  /\ InitDefault
  /\ [][NextLive]_vars
  /\ \A n \in 1..MaxNav :
       /\ WF_vars(\E resp \in LiveResponses : NavFetchSettle(n, resp))
       /\ []<>(navs[n].pc \notin {"resume", "handler"})

\* Route resolution under the spellings of a path: routes registered under
\* either spelling of a base path, one navigation at a time to any spelling
\* of a base path, with and without the option htmlExtension.
InitSpell == \E he \in BOOLEAN : Construct(he, TRUE, 0) /\ NoCall

NextSpell ==
  \/ \E p \in SpellPatterns : Route(p, ReturnsNothing)
  \/ \E u \in SpellUrls : navs[1].pc = "idle" /\ Navigate(u, FALSE)
  \/ \E n \in 1..MaxNav : NavFetchSettle(n, DocUntitled)
  \/ \E n \in 1..MaxNav : NavResume(n)
  \/ \E n \in 1..MaxNav : HandlerSettle(n)

SpecSpell == InitSpell /\ [][NextSpell]_vars

\* Async handlers: every route has a handler that returns a pending promise,
\* and navigate calls overlap.  A call at the await of line 245 has started
\* its handler and waits for the promise; HandlerSettle is the promise
\* fulfilled and the call going on.
AsyncRouteCalls == {<<PatternId, ReturnsPromise>>, <<PatternAll, ReturnsPromise>>}

NextAsync ==
  \/ \E rc \in AsyncRouteCalls : Route(rc[1], rc[2])
  \/ Navigate(UrlPost, FALSE)
  \/ \E n \in 1..MaxNav : NavFetchSettle(n, DocTitled)
  \/ \E n \in 1..MaxNav : NavResume(n)
  \/ \E n \in 1..MaxNav : HandlerSettle(n)

SpecAsync == InitDefault /\ [][NextAsync]_vars

(***************************************************************************)
(* The path functions on their own: normalizePath, parsePath, and the two  *)
(* lines of navigate that decide whether a route matches.                  *)
(***************************************************************************)
\* the pieces of a string, put together
RECURSIVE Concat(_)
Concat(pieces) == IF pieces = << >> THEN << >> ELSE pieces[1] \o Concat(Tail(pieces))

\* the sequences of at most n elements of S
UpTo(S, n) == UNION {[1..k -> S] : k \in 0..n}

\* normalizePath is called with a path put together from these pieces.
PathPieces ==
  {<<"/">>, <<"a">>, DotHtml, <<".", "H", "T", "M", "L">>, <<"i", "n", "d", "e", "x">>,
   <<"?", "x">>}

NormalizePaths == {Concat(ps) : ps \in UpTo(PathPieces, MaxPieces)}

\* the call normalizePath(argPath), and normalizePath of what it returned
Normalize ==
  /\ answer = NoEntry
  /\ answer' = [once |-> normalizePath(argPath),
                twice |-> normalizePath(normalizePath(argPath))]
  /\ UNCHANGED <<htmlExtension, prefetchDelay, enterListener, leaveListener,
                 argPattern, argPath, hoverVars, pageVars, cache, routes, events,
                 navs, pres, alls, ghostVars>>

InitNormalize ==
  /\ Construct(TRUE, TRUE, 0)
  /\ argPattern = << >>
  /\ argPath \in NormalizePaths
  /\ answer = NoEntry

SpecNormalize == InitNormalize /\ [][Normalize]_vars

\* parsePath is called with one of these patterns and with a URL of at most
\* MaxSegments of these segments, with or without a trailing slash.
SegUsers == <<"u", "s", "e", "r", "s">>

SegFiles == <<"f", "i", "l", "e", "s">>

UrlSegments ==
  {SegUsers, SegFiles, <<"4", "2">>, <<"a">>, <<"b", "%", "2", "F", "c">>, <<"%">>}

MatchUrls ==
  {<<"/">> \o Join(segs) \o t : segs \in UpTo(UrlSegments, MaxSegments),
                                t \in {<< >>, <<"/">>}}

MatchPatterns ==
  {<<"/">> \o Join(segs) :
     segs \in {<<SegUsers, <<":", "i", "d">>>>, <<SegFiles, <<"*">>>>, <<SegUsers>>,
               <<<<":", "a">>, <<":", "b">>>>, <<<<":", "a">>, <<"*">>>>, <<<<"*">>>>,
               <<SegFiles, <<":", "x">>, <<"*">>>>}}

\* the call parsePath(argPattern, argPath)
Match ==
  /\ answer = NoEntry
  /\ answer' = [result |-> parsePath(argPattern, argPath)]
  /\ UNCHANGED <<htmlExtension, prefetchDelay, enterListener, leaveListener,
                 argPattern, argPath, hoverVars, pageVars, cache, routes, events,
                 navs, pres, alls, ghostVars>>

InitMatch ==
  /\ Construct(TRUE, TRUE, 0)
  /\ argPattern \in MatchPatterns
  /\ argPath \in MatchUrls
  /\ answer = NoEntry

SpecMatch == InitMatch /\ [][Match]_vars

\* The two lines of navigate that decide whether a route matches,
\* `matchUrl = this._normalizeUrl(rawUrl)` and `parsePath(pattern, matchUrl)`,
\* next to parsePath on the raw URL, on a router with and on one without
\* the option htmlExtension.
PolicyPatterns ==
  {<<"/">>, <<"/", "a">>, <<"/", ":", "p">>, <<"/", "a", "/", "*">>}

MatchUrl ==
  /\ answer = NoEntry
  /\ answer' = [normalized |-> parsePath(argPattern, _normalizeUrl(argPath)),
                raw |-> parsePath(argPattern, argPath)]
  /\ UNCHANGED <<htmlExtension, prefetchDelay, enterListener, leaveListener,
                 argPattern, argPath, hoverVars, pageVars, cache, routes, events,
                 navs, pres, alls, ghostVars>>

InitPolicy ==
  /\ \E he \in BOOLEAN : Construct(he, TRUE, 0)
  /\ argPattern \in PolicyPatterns
  /\ argPath \in NormalizePaths
  /\ answer = NoEntry

SpecPolicy == InitPolicy /\ [][MatchUrl]_vars

(***************************************************************************)
(* Properties.                                                             *)
(***************************************************************************)
Calls == {n \in 1..MaxNav : navs[n].pc # "idle"}

\* C1, as claimed: if prefetch(X) has stored an entry and the cache has not
\* been cleared since, a navigate(X) called afterwards issues no fetch and
\* its content, before any handler override, is the entry the prefetch stored.
C1_PrefetchThenNavigate ==
  \A n \in Calls :
    navs[n].seen.prefetched # NoEntry =>
      /\ ~navs[n].fetched
      /\ navs[n].data = navs[n].seen.prefetched

\* C1, amended: if prefetch(X) has stored an entry and since then the cache
\* has not been cleared and no other fetch for X has completed, a navigate(X)
\* called afterwards issues no fetch, and the content it starts from and
\* (without handlers) renders is the entry the prefetch stored.
C1_PrefetchThenNavigateUnlessOverwritten ==
  \A n \in Calls :
    navs[n].seen.prefetched # NoEntry /\ navs[n].seen.lastWrite = "prefetch" =>
      /\ ~navs[n].fetched
      /\ navs[n].data = navs[n].seen.prefetched
      /\ navs[n].pc = "done" =>
           /\ navs[n].finalData = navs[n].seen.prefetched
           /\ navs[n].render = "default"

C1_Witness ==
  \E n \in 1..MaxNav :
    /\ navs[n].pc = "done"
    /\ navs[n].seen.prefetched # NoEntry
    /\ navs[n].seen.lastWrite = "prefetch"
    /\ ~navs[n].fetched

\* C2, as claimed: once the fetch of a navigate(U) has failed, the cache has
\* the fallback entry for U, and a navigate(U) called afterwards, with no
\* clearCache in between, issues no fetch and starts from that fallback.
C2_FailedNavigateIsCached ==
  /\ \A u \in Urls : lastWrite[u] = "fallback" => Has(u) /\ cache[u].title = "Error"
  /\ \A n \in Calls :
       navs[n].seen.navFailed => ~navs[n].fetched /\ navs[n].data = fallback

\* C2, amended: when the fetch of a navigate(U) fails, the cache holds the
\* fallback entry (title "Error") for U right afterwards, and a navigate(U)
\* called afterwards, with no clearCache and no other completed fetch for U
\* in between, issues no fetch and renders that fallback.
C2_FailedNavigateIsCachedUnlessOverwritten ==
  /\ \A u \in Urls : lastWrite[u] = "fallback" => Has(u) /\ cache[u] = fallback
  /\ \A n \in Calls :
       navs[n].seen.lastWrite = "fallback" =>
         /\ ~navs[n].fetched
         /\ navs[n].data = fallback
         /\ navs[n].data.title = "Error"
         /\ navs[n].pc = "done" => navs[n].finalData = fallback

C2_Witness ==
  \E n \in 1..MaxNav :
    /\ navs[n].pc = "done"
    /\ navs[n].seen.lastWrite = "fallback"
    /\ ~navs[n].fetched

\* C3: when the fetch of a prefetch(U) fails, "prefetch:error" is emitted and
\* nothing else; if no other operation has written U, the cache has no entry
\* for U, and a navigate(U) called then issues a fetch of its own.
C3_FailedPrefetchIsNotCached ==
  /\ \A p \in 1..MaxPre :
       pres[p].failed =>
         /\ pres[p].emitted = <<"prefetch:error">>
         /\ lastWrite[pres[p].url] = "none" => ~Has(pres[p].url)
  /\ \A n \in Calls :
       navs[n].seen.prefetchFailed /\ navs[n].seen.lastWrite = "none" =>
         navs[n].fetched

C3_Witness ==
  \E n \in 1..MaxNav :
    /\ navs[n].pc = "done"
    /\ navs[n].seen.prefetchFailed
    /\ navs[n].seen.lastWrite = "none"
    /\ navs[n].fetched

\* C4: the promise of prefetch and the promise of prefetchAll are never
\* rejected, whatever the fetches and the listeners do: a prefetch whose
\* fetch has settled is resolved, and a failed fetch shows in the
\* "prefetch:error" event only.
C4_PrefetchNeverRejects ==
  /\ \A p \in 1..MaxPre :
       /\ pres[p].pc \in {"idle", "fetching", "resolved"}
       /\ pres[p].failed =>
            /\ pres[p].pc = "resolved"
            /\ pres[p].emitted = <<"prefetch:error">>
       /\ pres[p].pc = "fetching" => pres[p].fetched /\ pres[p].emitted = << >>
  /\ alls.pc \in {"idle", "waiting", "resolved"}
  /\ alls.pc = "resolved" => \A p \in alls.members : pres[p].pc = "resolved"

C4_Witness ==
  /\ alls.pc = "resolved"
  /\ EmitThrows("prefetch:error")
  /\ \E p \in alls.members : pres[p].failed

\* the patterns of rs that match url, in the order of rs
RECURSIVE MatchingPatterns(_, _)
MatchingPatterns(rs, url) ==
  IF rs = << >> THEN << >>
  ELSE (IF parsePath(rs[1].pattern, url).kind = "params"
          THEN <<rs[1].pattern>> ELSE << >>)
       \o MatchingPatterns(Tail(rs), url)

\* the content after the overrides of results, applied first to last, as the
\* claim words them
RECURSIVE Overrides(_, _)
Overrides(content, results) ==
  IF results = << >> THEN content
  ELSE Overrides(
         [title |-> IF results[1].kind = "object" /\ "title" \in DOMAIN results[1].fields
                      THEN results[1].fields.title ELSE content.title,
          body |-> IF results[1].kind = "string" THEN results[1].body
                   ELSE IF results[1].kind = "object" /\ "body" \in DOMAIN results[1].fields
                     THEN results[1].fields.body ELSE content.body],
         Tail(results))

\* C5: when a navigate call reaches its end, the handlers it has invoked are
\* those of the registered patterns that match, each once, in registration
\* order, and its final content is the fetched content with their results
\* applied in that order: a string replaces the body, an object is merged
\* over the content, nothing changes nothing.  {title: "A"} followed by "B"
\* gives the title "A" and the body "B".
C5_HandlersInOrder ==
  [][\A n \in 1..MaxNav :
       navs[n].pc # "done" /\ navs'[n].pc = "done" =>
         /\ navs'[n].invoked = MatchingPatterns(routes', navs'[n].matchUrl)
         /\ Len(navs'[n].results) = Len(navs'[n].invoked)
         /\ navs'[n].finalData = Overrides(navs'[n].data, navs'[n].results)
         /\ navs'[n].results = <<ReturnsObject, ReturnsString>> =>
              navs'[n].finalData.title = "A" /\ navs'[n].finalData.body = "B"]_vars

C5_Witness ==
  \E n \in 1..MaxNav :
    /\ navs[n].pc = "done"
    /\ navs[n].invoked = <<PatternId, PatternAll>>
    /\ navs[n].results = <<ReturnsObject, ReturnsString>>
    /\ navs[n].finalData.title = "A"
    /\ navs[n].finalData.body = "B"

\* C6: after setPrefetchOnHover(false) no timer that was pending at that
\* moment is left to fire: every one of them is cleared, so none of them
\* ever starts a prefetch.
C6_DisableCancelsPending ==
  \A t \in 1..MaxTimers : timers[t].disabled => timers[t].state = "cleared"

\* C7: while prefetch on hover is disabled, the mouseenter listener neither
\* schedules a timer nor calls prefetch.
C7_DisabledIgnoresHover ==
  [][\A l \in Links :
       ~prefetchOnHover /\ MouseEnter(l) =>
         UNCHANGED <<timers, prefetchTimeouts, pres>>]_vars

\* C8: with a positive delay, a timer that was pending when the mouseleave
\* listener ran for its link never fires.
C8_LeaveCancelsHover ==
  \A t \in 1..MaxTimers : timers[t].left => timers[t].state # "fired"

\* C9: clearCache(u) for a cached key u removes the entry of u and no other,
\* clearCache() leaves the cache empty, clearCache(u) for a key that is not
\* cached changes nothing, and getCacheInfo gives the number of entries and
\* the keys of the cache.
C9_ClearCache ==
  [][/\ \A u \in Urls : ClearCache(u) => cache' = MapDelete(cache, u)
     /\ ClearCache(Undefined) => cache' = << >>
     /\ getCacheInfo'.urls = DOMAIN cache'
     /\ getCacheInfo'.size = Cardinality(DOMAIN cache')]_vars

\* C10, as claimed: a navigate call that reaches its end has updated the
\* history once, after the render step, by pushState or, with replace, by
\* replaceState, with the raw URL and with the final title of its content.
C10_HistoryUpdate ==
  \A n \in Calls :
    /\ navs[n].pc # "done" => navs[n].hist = << >>
    /\ navs[n].pc = "done" =>
         /\ Len(navs[n].hist) = 1
         /\ navs[n].render # "none"
         /\ navs[n].hist[1].op = IF navs[n].replace THEN "replaceState" ELSE "pushState"
         /\ navs[n].hist[1].url = navs[n].rawUrl
         /\ navs[n].hist[1].title = navs[n].finalData.title

\* C10, amended: as claimed, but the title of the update is the final title
\* of the content when that is not empty and the title of the document, as
\* the render step left it, when it is empty.  The entry written is the
\* current entry of the session history: a new last entry for pushState, the
\* entry in place for replaceState.
C10_HistoryUpdateWithTitleFallback ==
  [][\A n \in 1..MaxNav :
       /\ navs'[n].pc # "done" => navs'[n].hist = << >>
       /\ navs[n].pc = "done" => navs'[n] = navs[n]
       /\ navs[n].pc # "done" /\ navs'[n].pc = "done" =>
            /\ Len(navs'[n].hist) = 1
            /\ navs'[n].render # "none"
            /\ navs'[n].hist[1].op =
                 IF navs[n].replace THEN "replaceState" ELSE "pushState"
            /\ navs'[n].hist[1].url = navs[n].rawUrl
            /\ navs'[n].hist[1].title =
                 IF navs'[n].finalData.title # "" THEN navs'[n].finalData.title
                 ELSE docTitle'
            /\ history'[historyIndex'] =
                 [title |-> navs'[n].hist[1].title, url |-> ResolveUrl(navs[n].rawUrl)]
            /\ IF navs[n].replace
                 THEN historyIndex' = historyIndex /\ Len(history') = Len(history)
                 ELSE historyIndex' = historyIndex + 1 /\ Len(history') = historyIndex']_vars

C10_Witness ==
  \E n \in 1..MaxNav :
    /\ navs[n].pc = "done"
    /\ navs[n].replace
    /\ navs[n].rawUrl # navs[n].matchUrl
    /\ navs[n].finalData.title = "A"
    /\ navs[n].hist = <<[op |-> "replaceState", title |-> "A", url |-> UrlPostQuery]>>

\* C11: between the synchronous steps of navigate calls, the URL of the page
\* rendered last and the URL of the current entry of the session history are
\* the same, however the calls overlap.
C11_PageMatchesHistory == shown = history[historyIndex].url

\* C12: a navigation whose response is a failure, a transport error or a
\* status outside 2xx, does not keep the body of the response: the content
\* of the call is the fallback, whose title is "Error".
C12_FailureIsFallback ==
  \A n \in Calls :
    navs[n].response # NoEntry /\ ~ok(navs[n].response) =>
      /\ navs[n].data = fallback
      /\ navs[n].data.title = "Error"

\* C13: a navigate call whose fetch settles and whose handlers do not throw
\* reaches its end: it renders a payload and updates the history.
C13_NavigateCompletes ==
  \A n \in 1..MaxNav :
    (navs[n].pc # "idle") ~>
      \/ navs[n].pc = "done" /\ navs[n].render # "none" /\ Len(navs[n].hist) = 1
      \/ /\ navs[n].pc = "rejected"
         /\ navs[n].results # << >>
         /\ navs[n].results[Len(navs[n].results)] = Throws

\* the places of the "navigate" events in a list of emitted events
NavigateEvents(emitted) == {i \in 1..Len(emitted) : emitted[i][1] = "navigate"}

\* the handler a call invoked last threw
HandlerThrew(nav) ==
  nav.results # << >> /\ nav.results[Len(nav.results)] = Throws

\* C14: when a handler throws, the navigate call rejects at once: the handler
\* that threw is the last one the call invokes, the call emits no "navigate"
\* event, does not render and does not touch the history, and the page and
\* the session history are as they were before the step.
C14_HandlerThrowRejects ==
  [][\A n \in 1..MaxNav :
       /\ HandlerThrew(navs'[n]) =>
            /\ navs'[n].pc = "rejected"
            /\ navs'[n].render = "none"
            /\ navs'[n].hist = << >>
            /\ NavigateEvents(navs'[n].emitted) = {}
            /\ Len(navs'[n].invoked) = Len(navs'[n].results)
       /\ ~HandlerThrew(navs[n]) /\ HandlerThrew(navs'[n]) => UNCHANGED pageVars
       /\ navs[n].pc = "rejected" => navs'[n] = navs[n]]_vars

C14_Witness ==
  \E n \in 1..MaxNav :
    /\ navs[n].pc = "rejected"
    /\ navs[n].invoked = <<PatternId>>
    /\ navs[n].results = <<Throws>>
    /\ Len(routes) = 2
    /\ routes[2].pattern = PatternAll
    /\ hasCustomNavigate

\* C15: at the render step of a navigate call, if the "navigate" event has a
\* listener the call emits that event, once, with the URL and the content
\* after all overrides, and the router changes neither the title of the
\* document nor the container; if it has none, the call emits no "navigate"
\* event and the default render writes the title, when not empty, and the
\* container.
C15_RenderOnce ==
  [][\A n \in 1..MaxNav :
       /\ navs[n].render = "none" /\ navs'[n].render # "none" =>
            IF hasCustomNavigate
              THEN /\ navs'[n].render = "custom"
                   /\ Cardinality(NavigateEvents(navs'[n].emitted)) = 1
                   /\ navs'[n].emitted[Len(navs'[n].emitted)] =
                        <<"navigate",
                          [url |-> navs[n].rawUrl,
                           title |-> Overrides(navs'[n].data, navs'[n].results).title,
                           body |-> Overrides(navs'[n].data, navs'[n].results).body]>>
                   /\ docTitle' = docTitle
                   /\ container' = container
              ELSE /\ navs'[n].render = "default"
                   /\ NavigateEvents(navs'[n].emitted) = {}
                   /\ container' = Overrides(navs'[n].data, navs'[n].results).body
                   /\ docTitle' =
                        IF Overrides(navs'[n].data, navs'[n].results).title # ""
                          THEN Overrides(navs'[n].data, navs'[n].results).title
                          ELSE docTitle
       /\ navs[n].render # "none" => navs'[n] = navs[n]]_vars

C15_Witness ==
  \E n \in 1..MaxNav :
    /\ navs[n].pc = "done"
    /\ navs[n].render = "custom"
    /\ navs[n].results = <<ReturnsObject, ReturnsString>>
    /\ navs[n].emitted[Len(navs[n].emitted)] =
         <<"navigate", [url |-> UrlPostQuery, title |-> "A", body |-> "B"]>>
    /\ docTitle = "Home"
    /\ container = "<p>home</p>"

\* C16: normalizePath(normalizePath(p)) = normalizePath(p) for every path p.
C16_NormalizeIdempotent == answer # NoEntry => answer.twice = answer.once

\* C17: when a navigate call to a spelling of a base path P (P, P/, P.html,
\* P/index, P/index.html, with or without query or fragment) reaches its end,
\* it has invoked the handler of every route registered as P or as P.html;
\* and parsePath(P, P/index.html) is a match.
C17_SpellingsResolveAlike ==
  [][\A n \in 1..MaxNav, P \in BasePaths :
       /\ parsePath(P, P \o SlashIndex \o DotHtml).kind = "params"
       /\ (navs[n].pc # "done" /\ navs'[n].pc = "done"
           /\ navs[n].rawUrl \in UrlSpellings(P)) =>
            \A j \in 1..Len(routes') :
              routes'[j].pattern \in PatternSpellings(P) =>
                \E k \in 1..Len(navs'[n].invoked) :
                  navs'[n].invoked[k] = routes'[j].pattern]_vars

C17_Witness ==
  \E n \in 1..MaxNav :
    /\ navs[n].pc = "done"
    /\ navs[n].rawUrl = BaseAbout \o SlashIndex \o DotHtml \o <<"?", "x">>
    /\ navs[n].invoked = <<BaseAbout \o DotHtml, BaseAbout>>

\* a segment of a pattern that names a parameter
IsParam(seg) == seg # << >> /\ seg[1] = ":"

\* the last segment of the pattern is the wildcard
HasWildcard(ps) == ps # << >> /\ ps[Len(ps)] = <<"*">>

\* the first n segments of the pattern ps face segments of the URL us that
\* they accept: any non-empty segment for a parameter, the same segment for
\* a literal
SegmentsAgree(ps, us, n) ==
  /\ Len(us) >= n
  /\ \A i \in 1..n : IF IsParam(ps[i]) THEN us[i] # << >> ELSE ps[i] = us[i]

\* the parameters named in the first n segments of ps, each bound to the
\* percent-decoded segment of us it faces
Bound(ps, us, n) ==
  [name \in {Tail(ps[i]) : i \in {k \in 1..n : IsParam(ps[k])}} |->
     decodeURIComponent(us[CHOOSE i \in 1..n : IsParam(ps[i]) /\ Tail(ps[i]) = name])]

\* Bound, and "*" bound to the percent-decoded rest of us from segment n on
BoundWithRest(ps, us, n) ==
  [name \in DOMAIN Bound(ps, us, n - 1) \cup {<<"*">>} |->
     IF name = <<"*">> THEN decodeURIComponent(Join(SubSeq(us, n, Len(us))))
     ELSE Bound(ps, us, n - 1)[name]]

\* what C18 says parsePath answers for the segments ps of the normalized
\* pattern and us of the normalized URL
ExactMatch(ps, us) ==
  IF Len(ps) = Len(us) /\ SegmentsAgree(ps, us, Len(ps))
    THEN Matched(Bound(ps, us, Len(ps)))
    ELSE NoMatch

\* what C19 says parsePath answers
WildcardMatch(ps, us) ==
  IF Len(us) >= Len(ps) - 1 /\ SegmentsAgree(ps, us, Len(ps) - 1)
    THEN Matched(BoundWithRest(ps, us, Len(ps)))
    ELSE NoMatch

\* C18: for a pattern without a trailing wildcard, parsePath answers with a
\* match exactly when the normalized URL has as many segments as the
\* normalized pattern, the literal segments are equal and every parameter
\* faces a non-empty segment; the match binds each parameter to its
\* percent-decoded segment, and every other answer is null.
\* parsePath("/users/:id", "/users/42") is {id: "42"} and
\* parsePath("/users/:id", "/users/") is null.
C18_ExactPattern ==
  (answer # NoEntry /\ ~HasWildcard(Segments(normalizePath(argPattern)))) =>
    answer.result = ExactMatch(Segments(normalizePath(argPattern)),
                               Segments(normalizePath(argPath)))

\* C19: for a pattern that ends with the wildcard, parsePath answers with a
\* match exactly when the URL has at least as many segments as the pattern
\* has before the wildcard and those segments agree; the match binds "*" to
\* the percent-decoded rest of the URL, joined by "/", empty when nothing
\* is left, and every other answer is null.
\* parsePath("/files/*", "/files/a/b%2Fc") is {"*": "a/b/c"}.
C19_WildcardPattern ==
  (answer # NoEntry /\ HasWildcard(Segments(normalizePath(argPattern)))) =>
    answer.result = WildcardMatch(Segments(normalizePath(argPattern)),
                                  Segments(normalizePath(argPath)))

\* the per-pattern events in a list of emitted events, in order
IsRouteEvent(e) == e[1] = "route:"

RouteEvents(emitted) == SelectSeq(emitted, IsRouteEvent)

\* the event the claim expects after the k-th handler of a call: the pattern,
\* and as payload the URL of the call, the content as the handlers before
\* the k-th left it, and the parameters of the pattern
RouteEventOf(nav, k) ==
  <<"route:", nav.invoked[k],
    [url |-> nav.rawUrl,
     title |-> Overrides(nav.data, SubSeq(nav.results, 1, k - 1)).title,
     body |-> Overrides(nav.data, SubSeq(nav.results, 1, k - 1)).body,
     params |-> parsePath(nav.invoked[k], nav.matchUrl).params]>>

\* the handlers of a call that have settled without throwing
Settled(nav) ==
  IF nav.pc = "handler" \/ HandlerThrew(nav)
    THEN Len(nav.invoked) - 1 ELSE Len(nav.invoked)

\* C20: a navigate call has emitted one event "route:<pattern>" for each of
\* its handlers that has settled, in the order of the handlers, and none for
\* the handler it is waiting for: the event of a pattern comes after its
\* handler and before the next handler.  The payload is the URL of the call,
\* the parameters, and the content before the handler's own override.  Only
\* patterns that match get an event.
C20_RouteEvents ==
  \A n \in Calls :
    /\ Len(RouteEvents(navs[n].emitted)) = Settled(navs[n])
    /\ \A k \in 1..Settled(navs[n]) :
         /\ RouteEvents(navs[n].emitted)[k] = RouteEventOf(navs[n], k)
         /\ parsePath(navs[n].invoked[k], navs[n].matchUrl).kind = "params"

C20_Witness ==
  \E n \in 1..MaxNav :
    /\ navs[n].pc = "done"
    /\ navs[n].invoked = <<PatternId, PatternAll>>
    /\ navs[n].results = <<ReturnsObject, ReturnsNothing>>
    /\ navs[n].data = DocUntitled
    /\ RouteEvents(navs[n].emitted)[1][3].title = ""
    /\ RouteEvents(navs[n].emitted)[2][3].title = "A"
    /\ RouteEvents(navs[n].emitted)[2][3].url = UrlPostQuery

\* the navigate calls whose handler has been started and has not settled
InFlight == {n \in 1..MaxNav : navs[n].pc = "handler" /\ navs[n].result = ReturnsPromise}

\* C21, as claimed: at no time are two route handlers of a router both
\* started and not yet settled, however the navigate calls overlap.
C21_HandlersSequential == Cardinality(InFlight) <= 1

\* C21, amended: within one navigate call the handlers run strictly
\* sequentially: the call has started at most one handler that has not
\* settled, namely the one it is waiting for, and every handler it started
\* before has settled and has had its event emitted.  Handlers of different
\* calls may be pending at the same time.
C21_SequentialWithinCall ==
  \A n \in Calls :
    Len(navs[n].invoked) - Len(RouteEvents(navs[n].emitted)) =
      IF n \in InFlight THEN 1 ELSE 0

C21_Witness ==
  \E n \in 1..MaxNav, m \in 1..MaxNav :
    /\ n # m
    /\ n \in InFlight
    /\ m \in InFlight
    /\ navs[n].invoked = <<PatternId, PatternAll>>
    /\ Len(RouteEvents(navs[n].emitted)) = 1

\* C22: the pending-timer map has an entry for a link only while the timer
\* of that entry is scheduled for the link and has neither fired nor been
\* cancelled: no entry is left for a timer that has fired, that a hover-leave
\* has cleared, or that disabling prefetch on hover has cleared.
C22_PendingMapIsLive ==
  \A l \in DOMAIN prefetchTimeouts :
    /\ prefetchTimeouts[l] \in Pending
    /\ timers[prefetchTimeouts[l]].link = l

\* what a navigate writes to the cache for the response resp
Written(resp) == IF resp = NetworkError THEN fallback ELSE resp

\* the responses the navigate calls for u have stored
NavigateWrites(u) ==
  {navs[n].response : n \in {m \in Calls : navs[m].rawUrl = u
                                           /\ navs[m].response \in Docs}}

\* C23: a navigate(U) and a prefetch(U) that are both started while the cache
\* has no entry for U both issue a fetch.  When the fetch of one of them
\* settles, the other call is left as it is: the navigate goes on with what
\* its own fetch gave (the fallback when it failed) and stores it, whatever
\* the cache holds for U; the prefetch resolves, stores its document, or
\* leaves the cache as it is when its fetch failed.  So once both have
\* settled, the entry of U is the one written last.
C23_RaceLastWriteWins ==
  [][\A n \in 1..MaxNav, p \in 1..MaxPre :
       /\ (navs[n].pc = "idle" /\ navs'[n].pc # "idle" /\ ~Has(navs'[n].rawUrl)) =>
            navs'[n].pc = "fetching" /\ navs'[n].fetched
       /\ (pres[p].pc = "idle" /\ pres'[p].pc # "idle" /\ ~Has(pres'[p].url)) =>
            pres'[p].pc = "fetching" /\ pres'[p].fetched
       /\ (navs[n].fetched /\ pres[p].fetched /\ navs[n].rawUrl = pres[p].url) =>
            /\ (navs[n].pc = "fetching" /\ navs'[n].pc # "fetching") =>
                 /\ pres'[p] = pres[p]
                 /\ navs'[n].pc = "resume"
                 /\ navs'[n].data = Written(navs'[n].response)
                 /\ navs[n].rawUrl \in DOMAIN cache'
                 /\ cache'[navs[n].rawUrl] = Written(navs'[n].response)
                 /\ lastWrite'[navs[n].rawUrl] \in {"navigate", "fallback"}
            /\ (pres[p].pc = "fetching" /\ pres'[p].pc # "fetching") =>
                 /\ navs'[n] = navs[n]
                 /\ pres'[p].pc = "resolved"
                 /\ IF pres'[p].failed
                      THEN cache' = cache /\ lastWrite' = lastWrite
                      ELSE /\ pres[p].url \in DOMAIN cache'
                           /\ cache'[pres[p].url] = prefetched'[pres[p].url]
                           /\ cache'[pres[p].url] \in Docs
                           /\ lastWrite'[pres[p].url] = "prefetch"
            /\ (navs'[n].pc \notin {"idle", "fetching"} /\ pres'[p].pc = "resolved"
                /\ lastWrite'[navs[n].rawUrl] # "none") =>
                 /\ navs[n].rawUrl \in DOMAIN cache'
                 /\ lastWrite'[navs[n].rawUrl] = "prefetch" =>
                      cache'[navs[n].rawUrl] = prefetched'[navs[n].rawUrl]
                 /\ lastWrite'[navs[n].rawUrl] = "fallback" =>
                      cache'[navs[n].rawUrl] = fallback
                 /\ lastWrite'[navs[n].rawUrl] = "navigate" =>
                      cache'[navs[n].rawUrl] \in NavigateWrites(navs[n].rawUrl)']_vars

\* C25: parsePath(p, _normalizeUrl(u)) = parsePath(p, u) for every pattern p
\* and every URL u, with the option htmlExtension and without it: the option
\* changes neither which routes match a URL nor the parameters of a match.
C25_PolicyKeepsMatches == answer # NoEntry => answer.normalized = answer.raw

\* a fetch of a navigate call settles in this step
NavFetchSettles(n) == navs[n].pc = "fetching" /\ navs'[n].pc # "fetching"

\* C24: the overrides of handlers never reach the cache.  A step of a
\* navigate call changes the cache only when the fetch of the call settles:
\* the call had missed the cache when it was called, and the step stores
\* what the fetch gave (the fallback when it failed) under the raw URL and
\* touches no other entry.  Every entry is a fetched document or the
\* fallback, and a navigate call to a cached URL issues no fetch and starts
\* from the entry: the first handler, or the render step when no route
\* matches, sees the content of the entry.
C24_OverridesStayOutOfCache ==
  [][/\ \A u \in DOMAIN cache' : cache'[u] \in Docs \cup {fallback}
     /\ (\A m \in 1..MaxNav : ~NavFetchSettles(m)) => cache' = cache
     /\ \A n \in 1..MaxNav :
          /\ NavFetchSettles(n) =>
               /\ navs[n].fetched
               /\ cache' = MapSet(cache, navs[n].rawUrl, Written(navs'[n].response))
          /\ (navs[n].pc = "idle" /\ navs'[n].pc # "idle" /\ Has(navs'[n].rawUrl)) =>
               /\ ~navs'[n].fetched
               /\ navs'[n].pc = "resume"
               /\ navs'[n].data = cache[navs'[n].rawUrl]
          /\ (navs[n].pc = "resume" /\ navs'[n].pc = "handler") =>
               navs'[n].ctx = Spread([url |-> navs[n].rawUrl], navs[n].data)
          /\ (navs[n].pc = "resume" /\ navs'[n].pc = "done") =>
               navs'[n].finalData = navs[n].data]_vars

C24_Witness ==
  \E n \in 1..MaxNav, m \in 1..MaxNav :
    /\ navs[n].pc = "done"
    /\ navs[n].fetched
    /\ navs[n].rawUrl = UrlPostQuery
    /\ navs[n].results = <<ReturnsObject, ReturnsString>>
    /\ navs[n].finalData = [title |-> "A", body |-> "B"]
    /\ cache[UrlPostQuery] = DocUntitled
    /\ navs[m].pc = "done"
    /\ navs[m].rawUrl = UrlPostQuery
    /\ ~navs[m].fetched
    /\ navs[m].data = DocUntitled
    /\ navs[m].results = <<ReturnsObject, ReturnsString>>

C23_Witness ==
  \E n \in 1..MaxNav, p \in 1..MaxPre :
    /\ navs[n].rawUrl = UrlPost
    /\ pres[p].url = UrlPost
    /\ navs[n].fetched
    /\ pres[p].fetched
    /\ navs[n].pc = "done"
    /\ pres[p].pc = "resolved"
    /\ navs[n].response = DocUntitled
    /\ navs[n].finalData = DocUntitled
    /\ lastWrite[UrlPost] = "prefetch"
    /\ cache[UrlPost] = DocTitled

====
